---- MODULE Spec2Model ----
(***************************************************************************)
(* Model of the CloudWatch event notifier lambda (main.go).                *)
(*                                                                         *)
(* HandleRequest filters an event by source, decodes its JSON detail into  *)
(* an EMREventDetail, builds one Slack attachment, and posts the           *)
(* attachments to Slack in chunks of slackAttachmentsChunkSize.            *)
(*                                                                         *)
(* The detail bytes are modelled as a sequence of JSON tokens; Unmarshal   *)
(* scans and decodes that sequence the way encoding/json does for the      *)
(* EMREventDetail struct.                                                  *)
(***************************************************************************)
EXTENDS Integers, Sequences, FiniteSets, TLC

VARIABLES
    slackAttachmentsChunkSize,  \* package variable, set in init()
    slackMonitorChannel,        \* package variable, set in init()
    slackWebhook,               \* the webhook the slackClient was built with
    functionName,               \* environment: AWS_LAMBDA_FUNCTION_NAME
    pc,                         \* position of the handler
    invocations,                \* number of invocations started so far
    event,                      \* the CloudWatchEvent of the current invocation
    emrEventDetail,             \* local of HandleRequest
    err,                        \* local of HandleRequest: the Unmarshal error
    slackAttachments,           \* local of HandleRequest
    i,                          \* loop index of the chunking loop
    sent,                       \* payloads handed to slackClient.Send, in order
    replies,                    \* what each Send returned: "resp" or "err"
    log,                        \* lines written to the Info/Warning/Error loggers
    ret                         \* value returned to the lambda runtime

vars == <<slackAttachmentsChunkSize, slackMonitorChannel, slackWebhook,
          functionName, pc, invocations, event, emrEventDetail, err,
          slackAttachments, i, sent, replies, log, ret>>

config == <<slackAttachmentsChunkSize, slackMonitorChannel, slackWebhook>>

----------------------------------------------------------------------------
(* Bounds of the model *)

MaxInvocations == 2

MaxLen == 5

MaxChunk == 3

----------------------------------------------------------------------------
(* JSON tokens: the detail bytes after lexing *)

Str(s) == <<"str", s>>

Num(s) == <<"num", s>>

Lit(s) == <<"lit", s>>

Bad(s) == <<"bad", s>>

LBrace == <<"punct", "{">>

RBrace == <<"punct", "}">>

LBracket == <<"punct", "[">>

RBracket == <<"punct", "]">>

Colon == <<"punct", ":">>

Comma == <<"punct", ",">>

Null == Lit("null")

IsScalar(tok) == tok[1] \in {"str", "num", "lit"}

----------------------------------------------------------------------------
(* json.Unmarshal: the validity scan (checkValid) *)

RECURSIVE ScanValue(_, _)
RECURSIVE ScanMembers(_, _)
RECURSIVE ScanElements(_, _)

\* Position just after the JSON value that starts at position p of b,
\* or 0 when no well-formed value starts there.
ScanValue(b, p) ==
    IF p < 1 \/ p > Len(b) THEN 0
    ELSE IF IsScalar(b[p]) THEN p + 1
    ELSE IF b[p] = LBrace
         THEN IF p + 1 <= Len(b) /\ b[p + 1] = RBrace
              THEN p + 2
              ELSE ScanMembers(b, p + 1)
    ELSE IF b[p] = LBracket
         THEN IF p + 1 <= Len(b) /\ b[p + 1] = RBracket
              THEN p + 2
              ELSE ScanElements(b, p + 1)
    ELSE 0

\* Members of an object from position p (a key) up to and including "}".
ScanMembers(b, p) ==
    IF p + 1 > Len(b) THEN 0
    ELSE IF b[p][1] # "str" \/ b[p + 1] # Colon THEN 0
    ELSE LET q == ScanValue(b, p + 2) IN
         IF q = 0 \/ q > Len(b) THEN 0
         ELSE IF b[q] = Comma THEN ScanMembers(b, q + 1)
         ELSE IF b[q] = RBrace THEN q + 1
         ELSE 0

\* Elements of an array from position p up to and including "]".
ScanElements(b, p) ==
    LET q == ScanValue(b, p) IN
    IF q = 0 \/ q > Len(b) THEN 0
    ELSE IF b[q] = Comma THEN ScanElements(b, q + 1)
    ELSE IF b[q] = RBracket THEN q + 1
    ELSE 0

\* The bytes are exactly one well-formed JSON value.
Valid(b) == ScanValue(b, 1) = Len(b) + 1

----------------------------------------------------------------------------
(* json.Unmarshal: decoding into EMREventDetail *)

ZeroDetail == [Severity |-> "", State |-> "", Message |-> ""]

\* Faulty variant: the State field tagged "status".
FieldForWrongTag(key) ==
    CASE key \in {"severity", "Severity", "SEVERITY"} -> "Severity"
      [] key \in {"status", "Status", "STATUS"} -> "State"
      [] key \in {"message", "Message", "MESSAGE"} -> "Message"
      [] OTHER -> ""

\* The struct field a JSON key selects (exact or case-insensitive match of
\* the json tag), or "" for a key no field matches.
FieldFor(key) ==
    CASE key \in {"severity", "Severity", "SEVERITY"} -> "Severity"
      [] key \in {"state", "State", "STATE"} -> "State"
      [] key \in {"message", "Message", "MESSAGE"} -> "Message"
      [] OTHER -> ""

RECURSIVE DecodeMembers(_, _, _, _)

\* Decode the members of a valid object from the key at position p, into
\* detail d with saved error e.  A string sets the field, null leaves it, any
\* other value saves an UnmarshalTypeError (the first one is kept) and the
\* decoding goes on.
DecodeMembers(b, p, d, e) ==
    LET field == FieldFor(b[p][2])
        v == b[p + 2]
        q == ScanValue(b, p + 2)
        d2 == IF field # "" /\ v[1] = "str"
              THEN [d EXCEPT ![field] = v[2]]
              ELSE d
        e2 == IF field # "" /\ v[1] # "str" /\ v # Null /\ e = ""
              THEN "type"
              ELSE e
    IN  IF b[q] = Comma
        THEN DecodeMembers(b, q + 1, d2, e2)
        ELSE [val |-> d2, err |-> e2]

\* Faulty variant: ill-formed bytes decode to the zero struct without error.
UnmarshalLenient(b) ==
    IF ~Valid(b) THEN [val |-> ZeroDetail, err |-> ""]
    ELSE IF b[1] = Null THEN [val |-> ZeroDetail, err |-> ""]
    ELSE IF b[1] # LBrace THEN [val |-> ZeroDetail, err |-> "type"]
    ELSE IF b[2] = RBrace THEN [val |-> ZeroDetail, err |-> ""]
    ELSE DecodeMembers(b, 2, ZeroDetail, "")

\* json.Unmarshal(b, &EMREventDetail{}): the decoded struct and the error
\* ("" is nil, "syntax" a SyntaxError, "type" an UnmarshalTypeError).
Unmarshal(b) ==
    IF ~Valid(b) THEN [val |-> ZeroDetail, err |-> "syntax"]
    ELSE IF b[1] = Null THEN [val |-> ZeroDetail, err |-> ""]
    ELSE IF b[1] # LBrace THEN [val |-> ZeroDetail, err |-> "type"]
    ELSE IF b[2] = RBrace THEN [val |-> ZeroDetail, err |-> ""]
    ELSE DecodeMembers(b, 2, ZeroDetail, "")

----------------------------------------------------------------------------
(* time.Time.String() and the clock *)

Second == 1000000000

Pad2(n) == IF n < 10 THEN "0" \o ToString(n) ELSE ToString(n)

\* event.Time.String() for a UTC instant t seconds into 1970-01-01.
TimeString(t) ==
    "1970-01-01 " \o Pad2(t \div 3600) \o ":" \o Pad2((t % 3600) \div 60)
        \o ":" \o Pad2(t % 60) \o " +0000 UTC"

\* time.Now().UnixNano() / int64(time.Second)
UnixSeconds(nowNanos) == nowNanos \div Second

----------------------------------------------------------------------------
(* The notification builder *)

FooterIcon ==
    "https://d1d05r7k0qlw4w.cloudfront.net/dist-cbe91c5a8477701757ff6752aae4c6f892018972/img/favicon.ico"

\* Faulty variant: the source compared without regard to case.
SourceMatchesAnyCase(source) == source \in {"aws.emr", "AWS.EMR"}

\* if event.Source == "aws.emr"
SourceMatches(source) == source = "aws.emr"

\* Faulty variant: the decode error is not checked.
DecodeNeverFails(e) == FALSE

\* if err != nil
DecodeFailed(e) == e # ""

\* Faulty variant: the decode error is returned to the runtime.
ReturnErr(e) == e

\* return nil, after the decode error was logged
DecodeErrorResult(e) == "nil"

\* Faulty variant: any non-empty severity is coloured danger.
ColorUnlessEmpty(detail) == IF detail.Severity # "" THEN "danger" ELSE "good"

\* color := "good"; if emrEventDetail.Severity == "ERROR" { color = "danger" }
Color(detail) == IF detail.Severity = "ERROR" THEN "danger" ELSE "good"

\* The AttachmentField slice of the attachment.
Fields(e, detail) ==
    << [Title |-> "AccountID", Value |-> e.accountId, Short |-> TRUE],
       [Title |-> "Region", Value |-> e.region, Short |-> TRUE],
       [Title |-> "State", Value |-> detail.State, Short |-> TRUE],
       [Title |-> "Time", Value |-> TimeString(e.time), Short |-> TRUE] >>

\* Faulty variant: the title taken from the detail's state.
AttachmentTitledByState(e, detail, footer, nowNanos) ==
    [Color |-> Color(detail),
     Title |-> detail.State,
     Text |-> detail.Message,
     Footer |-> footer,
     FooterIcon |-> FooterIcon,
     Ts |-> UnixSeconds(nowNanos),
     AttachmentField |-> Fields(e, detail)]

\* The slack.Attachment built for event e with decoded detail.
Attachment(e, detail, footer, nowNanos) ==
    [Color |-> Color(detail),
     Title |-> e.detailType,
     Text |-> detail.Message,
     Footer |-> footer,
     FooterIcon |-> FooterIcon,
     Ts |-> UnixSeconds(nowNanos),
     AttachmentField |-> Fields(e, detail)]

\* Faulty variant: the list kept from the previous invocation.
StaleAttachments == slackAttachments

\* slackAttachments := []slack.Attachment{}
FreshAttachments == <<>>

----------------------------------------------------------------------------
(* The chunking loop *)

\* Faulty variant: a full chunk ends one element early.
ChunkEndShort(idx, n, c) == IF idx + c > n THEN n ELSE idx + c - 1

\* end := i + chunkSize; if end > len { end = len }
ChunkEnd(idx, n, c) == IF idx + c > n THEN n ELSE idx + c

\* slackAttachments[idx:end]
Slice(list, idx, end) == SubSeq(list, idx + 1, end)

\* slack.Payload{Channel: ..., Attachments: ...}
Payload(channel, attachments) ==
    [Channel |-> channel, Attachments |-> attachments]

----------------------------------------------------------------------------
(* Inputs: the events the runtime may deliver *)

Keys == {"severity", "state", "message"}

KeyOrder == <<"severity", "state", "message">>

\* The values a detail object may carry under each key.
ValuesOf(k) ==
    CASE k = "severity" -> {Str("ERROR"), Str("error"), Str(""), Num("5"), Null}
      [] k = "state" -> {Str("TERMINATED")}
      [] k = "message" -> {Str("boom"), Lit("true")}

\* Detail objects: any subset of the keys, each with one of its values.
Objects ==
    UNION { {o \in [ks -> UNION {ValuesOf(k) : k \in Keys}] :
                \A k \in ks : o[k] \in ValuesOf(k)} : ks \in SUBSET Keys }

RECURSIVE EncodeMembers(_, _, _)

EncodeMembers(o, ks, n) ==
    IF n > Len(ks) THEN <<>>
    ELSE (IF n > 1 THEN <<Comma>> ELSE <<>>)
            \o <<Str(ks[n]), Colon, o[ks[n]]>>
            \o EncodeMembers(o, ks, n + 1)

\* The bytes of object o: {"severity":...,"state":...,"message":...}
Encode(o) ==
    <<LBrace>>
        \o EncodeMembers(o, SelectSeq(KeyOrder, LAMBDA k : k \in DOMAIN o), 1)
        \o <<RBrace>>

ScenarioADetail ==
    <<LBrace, Str("severity"), Colon, Str("ERROR"), Comma,
      Str("state"), Colon, Str("TERMINATED"), Comma,
      Str("message"), Colon, Str("boom"), RBrace>>

\* Bytes that are not one well-formed JSON value.
MalformedDetails ==
    { <<>>,
      <<LBrace, Bad("invalid")>>,
      <<LBrace, Str("severity"), Colon, Str("ERROR")>>,
      <<LBrace, Str("severity"), Colon, Str("ERROR"), Comma, RBrace>>,
      <<LBrace, Str("severity"), Str("ERROR"), RBrace>>,
      <<LBrace, RBrace, RBrace>>,
      <<LBracket, Str("ERROR"), Comma, RBracket>> }

\* Well-formed JSON that is not a plain object over the three keys.
OtherDetails ==
    { <<Null>>,
      <<LBracket, RBracket>>,
      <<Str("ERROR")>>,
      <<LBrace, Str("Severity"), Colon, Str("ERROR"), RBrace>>,
      <<LBrace, Str("severity"), Colon, Str("ERROR"), Comma,
        Str("severity"), Colon, Str("INFO"), RBrace>>,
      <<LBrace, Str("clusterId"), Colon, Str("j-1"), Comma,
        Str("severity"), Colon, Str("ERROR"), Comma,
        Str("tags"), Colon, LBracket, Str("a"), Comma,
        LBrace, Str("k"), Colon, Null, RBrace, RBracket, RBrace>>,
      <<LBrace, Str("state"), Colon, LBrace, Str("name"), Colon,
        Str("x"), RBrace, Comma, Str("message"), Colon, Str("boom"), RBrace>> }

Details == {Encode(o) : o \in Objects} \cup MalformedDetails \cup OtherDetails

Envelope(source, detailType, accountId, region, time) ==
    [source |-> source, detailType |-> detailType, accountId |-> accountId,
     region |-> region, time |-> time]

EmrEnvelopes ==
    { Envelope("aws.emr", "EMR Cluster State Change", "123456789012", "us-east-1", 3661),
      Envelope("aws.emr", "", "", "", 86399) }

OtherEnvelopes ==
    { Envelope("aws.ec2", "EC2 Instance State-change Notification", "123456789012", "us-east-1", 3661),
      Envelope("AWS.EMR", "EMR Cluster State Change", "123456789012", "us-east-1", 59),
      Envelope("", "", "", "", 0) }

WithDetail(env, detail) ==
    [source |-> env.source, detailType |-> env.detailType,
     accountId |-> env.accountId, region |-> env.region, time |-> env.time,
     detail |-> detail]

Events ==
    {WithDetail(env, d) : env \in EmrEnvelopes, d \in Details}
        \cup {WithDetail(env, d) : env \in OtherEnvelopes,
                d \in {ScenarioADetail, <<LBrace, Bad("invalid")>>, <<>>}}

\* Readings of time.Now().UnixNano()
Nows == {1999999999, 2000000000}

\* The environment init() and the handler read: SLACK_MONITOR_CHANNEL and
\* AWS_LAMBDA_FUNCTION_NAME, set or unset.
Environments ==
    { [channel |-> "#emr-monitor", function |-> "cloudwatch-event-notifier"],
      [channel |-> "", function |-> ""] }

NoEvent == WithDetail(Envelope("", "", "", "", 0), <<>>)

----------------------------------------------------------------------------
(* init() and the handler *)

ConfiguredChunkSize == 100

\* The state after init(), before the runtime delivers the first event.
Init ==
    /\ slackAttachmentsChunkSize = ConfiguredChunkSize
    /\ \E env \in Environments :
          /\ slackMonitorChannel = env.channel
          /\ functionName = env.function
    /\ slackWebhook = "https://hooks.slack.com/services/T000/B000/XXXX"
    /\ pc = "idle"
    /\ invocations = 0
    /\ event = NoEvent
    /\ emrEventDetail = ZeroDetail
    /\ err = ""
    /\ slackAttachments = <<>>
    /\ i = 0
    /\ sent = <<>>
    /\ replies = <<>>
    /\ log = <<>>
    /\ ret = "none"

ErrorLine(what) == [logger |-> "Error", line |-> what]

InfoLine(what) == [logger |-> "Info", line |-> what]

WarningLine(what) == [logger |-> "Warning", line |-> what]

\* HandleRequest from its entry to the end of the source filter block: the
\* runtime delivers event e, the handler filters by source, decodes the
\* detail and builds the attachment, or logs the decode error and returns.
Begin ==
    /\ pc \in {"idle", "done"}
    /\ invocations < MaxInvocations
    /\ \E e \in Events, now \in Nows :
          LET dec == Unmarshal(e.detail) IN
          /\ event' = e
          /\ IF SourceMatches(e.source)
             THEN /\ emrEventDetail' = dec.val
                  /\ err' = dec.err
                  /\ IF DecodeFailed(dec.err)
                     THEN /\ log' = <<ErrorLine(dec.err)>>
                          /\ slackAttachments' = FreshAttachments
                          /\ ret' = DecodeErrorResult(dec.err)
                          /\ pc' = "done"
                     ELSE /\ log' = <<>>
                          /\ slackAttachments' =
                                Append(FreshAttachments,
                                       Attachment(e, dec.val, functionName, now))
                          /\ ret' = "none"
                          /\ pc' = "dispatch"
             ELSE /\ emrEventDetail' = ZeroDetail
                  /\ err' = ""
                  /\ log' = <<>>
                  /\ slackAttachments' = FreshAttachments
                  /\ ret' = "none"
                  /\ pc' = "dispatch"
    /\ invocations' = invocations + 1
    /\ i' = 0
    /\ sent' = <<>>
    /\ replies' = <<>>
    /\ UNCHANGED <<config, functionName>>

\* Building the payload of the chunk at i, sending it, logging the outcome.
SendAndLog(sendErr) ==
    LET end == ChunkEnd(i, Len(slackAttachments), slackAttachmentsChunkSize)
        payload == Payload(slackMonitorChannel, Slice(slackAttachments, i, end))
    IN  /\ sent' = Append(sent, payload)
        /\ replies' = Append(replies, IF sendErr THEN "err" ELSE "resp")
        /\ log' = Append(log, IF sendErr THEN ErrorLine("send failed")
                                         ELSE InfoLine("response"))

\* Faulty variant: a failed send ends the loop.
SendChunkBreakOnError ==
    /\ pc = "dispatch"
    /\ Len(slackAttachments) # 0
    /\ i < Len(slackAttachments)
    /\ \E sendErr \in BOOLEAN :
          /\ SendAndLog(sendErr)
          /\ i' = IF sendErr THEN Len(slackAttachments)
                             ELSE i + slackAttachmentsChunkSize
    /\ UNCHANGED <<config, functionName, pc, invocations, event,
                   emrEventDetail, err, slackAttachments, ret>>

\* One iteration of the chunking loop; the send succeeds or fails.
SendChunk ==
    /\ pc = "dispatch"
    /\ Len(slackAttachments) # 0
    /\ i < Len(slackAttachments)
    /\ \E sendErr \in BOOLEAN :
          SendAndLog(sendErr)
    /\ i' = i + slackAttachmentsChunkSize
    /\ UNCHANGED <<config, functionName, pc, invocations, event,
                   emrEventDetail, err, slackAttachments, ret>>

\* The loop condition fails; the handler returns nil.
LoopDone ==
    /\ pc = "dispatch"
    /\ Len(slackAttachments) # 0
    /\ i >= Len(slackAttachments)
    /\ ret' = "nil"
    /\ pc' = "done"
    /\ UNCHANGED <<config, functionName, invocations, event, emrEventDetail,
                   err, slackAttachments, i, sent, replies, log>>

\* No attachment was built: the warning is logged and the handler returns nil.
NoSlackSent ==
    /\ pc = "dispatch"
    /\ Len(slackAttachments) = 0
    /\ log' = Append(log, WarningLine("No Slack Sent"))
    /\ ret' = "nil"
    /\ pc' = "done"
    /\ UNCHANGED <<config, functionName, invocations, event, emrEventDetail,
                   err, slackAttachments, i, sent, replies>>

Next == Begin \/ SendChunk \/ LoopDone \/ NoSlackSent

Spec == Init /\ [][Next]_vars

----------------------------------------------------------------------------
(* The chunking loop on its own: any attachment list, any chunk size >= 1 *)

Units ==
    { Attachment(WithDetail(env, ScenarioADetail),
                 Unmarshal(ScenarioADetail).val, "cloudwatch-event-notifier",
                 2000000000) :
        env \in { Envelope("aws.emr", "EMR Cluster State Change", "123456789012", "us-east-1", 3661),
                  Envelope("aws.emr", "EMR Step Status Change", "210987654321", "", 86399) } }

Lists == UNION { [1..n -> Units] : n \in 0..MaxLen }

InitDispatch ==
    /\ slackAttachmentsChunkSize \in 1..MaxChunk
    /\ slackMonitorChannel = "#emr-monitor"
    /\ slackWebhook = "https://hooks.slack.com/services/T000/B000/XXXX"
    /\ functionName = "cloudwatch-event-notifier"
    /\ pc = "dispatch"
    /\ invocations = 1
    /\ event = NoEvent
    /\ emrEventDetail = ZeroDetail
    /\ err = ""
    /\ slackAttachments \in Lists
    /\ i = 0
    /\ sent = <<>>
    /\ replies = <<>>
    /\ log = <<>>
    /\ ret = "none"

NextDispatch == SendChunk \/ LoopDone \/ NoSlackSent

SpecDispatch == InitDispatch /\ [][NextDispatch]_vars

----------------------------------------------------------------------------
(* Properties *)

Min(a, b) == IF a < b THEN a ELSE b

CeilDiv(n, c) == (n + c - 1) \div c

RECURSIVE Flatten(_)

\* The attachments of a sequence of payloads, concatenated in order.
Flatten(payloads) ==
    IF payloads = <<>> THEN <<>>
    ELSE Head(payloads).Attachments \o Flatten(Tail(payloads))

Started == pc # "idle"

\* C1: the value HandleRequest returns to the runtime is nil, whatever the
\* event source, whether or not the detail decodes, and whether each send
\* succeeds or fails; no other value is ever returned.
C1_ReturnsNil ==
    /\ ret \in {"none", "nil"}
    /\ pc = "done" => ret = "nil"

C1_Witness ==
    /\ pc = "done"
    /\ ret = "nil"
    /\ \E k \in 1..Len(log) : log[k] = ErrorLine("send failed")

\* C2: for a list of length L and a chunk size c >= 1 the loop makes
\* ceil(L / c) sends, each of 1..c attachments, all but the last of exactly c;
\* the payloads concatenated in sending order are the list itself.
C2_ChunksPartitionList ==
    LET L == Len(slackAttachments)
        c == slackAttachmentsChunkSize
    IN  /\ Flatten(sent) = SubSeq(slackAttachments, 1, Min(i, L))
        /\ \A k \in 1..Len(sent) : Len(sent[k].Attachments) \in 1..c
        /\ \A k \in 1..(Len(sent) - 1) : Len(sent[k].Attachments) = c
        /\ pc = "done" =>
              /\ Len(sent) = CeilDiv(L, c)
              /\ Flatten(sent) = slackAttachments

C2_Witness ==
    /\ pc = "done"
    /\ Len(slackAttachments) = 5
    /\ slackAttachmentsChunkSize = 2
    /\ Len(sent) = 3
    /\ Len(sent[1].Attachments) = 2
    /\ Len(sent[2].Attachments) = 2
    /\ Len(sent[3].Attachments) = 1
    /\ slackAttachments[1] # slackAttachments[2]

\* C3: a failed send never stops the loop: the k-th send carries the k-th
\* slice of the list whatever the outcomes before it, every send logs exactly
\* one line (Error on failure, Info on success), and when the handler is done
\* every chunk has been sent once.
C3_FailureDoesNotStopLoop ==
    LET L == Len(slackAttachments)
        c == slackAttachmentsChunkSize
    IN  L > 0 =>
          /\ Len(log) = Len(sent)
          /\ Len(replies) = Len(sent)
          /\ \A k \in 1..Len(log) :
                log[k] = IF replies[k] = "err" THEN ErrorLine("send failed")
                                              ELSE InfoLine("response")
          /\ \A k \in 1..Len(sent) :
                sent[k].Attachments =
                    SubSeq(slackAttachments, (k - 1) * c + 1, Min(k * c, L))
          /\ pc = "done" => Len(sent) = CeilDiv(L, c)

C3_Witness ==
    /\ pc = "done"
    /\ Len(sent) >= 3
    /\ replies[1] = "err"
    /\ replies[2] = "resp"
    /\ log[1] = ErrorLine("send failed")
    /\ log[2] = InfoLine("response")
    /\ log[3] = ErrorLine("send failed")

\* C4: an event whose source is not exactly "aws.emr" builds no attachment,
\* makes no send, logs the "No Slack Sent" warning and returns nil; a send
\* happens only in an invocation whose event source is "aws.emr".
C4_OtherSourcesSendNothing ==
    /\ (Started /\ event.source # "aws.emr") =>
          /\ slackAttachments = <<>>
          /\ sent = <<>>
          /\ pc = "done" =>
                /\ log = <<WarningLine("No Slack Sent")>>
                /\ ret = "nil"
    /\ sent # <<>> => event.source = "aws.emr"

C4_Witness ==
    /\ pc = "done"
    /\ event.source = "aws.ec2"
    /\ event.detail = ScenarioADetail
    /\ log = <<WarningLine("No Slack Sent")>>

\* C5: for an "aws.emr" event whose detail bytes are not well-formed JSON the
\* decoding fails, the error is logged on the Error logger and nothing else
\* is logged, no attachment is built, no send is made, and the handler has
\* returned nil.
C5_MalformedDetailIsDropped ==
    (Started /\ event.source = "aws.emr" /\ ~Valid(event.detail)) =>
        /\ pc = "done"
        /\ err = "syntax"
        /\ log = <<ErrorLine("syntax")>>
        /\ slackAttachments = <<>>
        /\ sent = <<>>
        /\ ret = "nil"

C5_Witness ==
    /\ pc = "done"
    /\ event.source = "aws.emr"
    /\ event.detail = <<LBrace, Bad("invalid")>>
    /\ log = <<ErrorLine("syntax")>>
    /\ ret = "nil"

\* C6: the attachment's color is "danger" exactly when the decoded severity
\* is the string "ERROR", and "good" for every other severity, the empty
\* string included; there is no third color.
C6_ColorFollowsSeverity ==
    \A k \in 1..Len(slackAttachments) :
        /\ slackAttachments[k].Color \in {"good", "danger"}
        /\ slackAttachments[k].Color = "danger" <=> emrEventDetail.Severity = "ERROR"

C6_Witness ==
    /\ Len(slackAttachments) = 1
    /\ emrEventDetail.Severity = "error"
    /\ slackAttachments[1].Color = "good"

\* The string a detail object carries under key k, as the decoded field
\* should hold it: "" when the key is missing or null.
Expected(o, k) == IF k \in DOMAIN o /\ o[k][1] = "str" THEN o[k][2] ELSE ""

\* Every value of the object is a JSON string or null.
StringValued(o) == \A k \in DOMAIN o : o[k][1] = "str" \/ o[k] = Null

\* C7 as stated: every well-formed object over any subset of the keys decodes
\* without error, missing or malformed fields giving "", and decoding is an
\* error only when the bytes are not well-formed.
C7_AsStated ==
    (Started /\ event.source = "aws.emr") =>
        /\ \A o \in Objects :
              event.detail = Encode(o) =>
                  /\ err = ""
                  /\ emrEventDetail.Severity = Expected(o, "severity")
                  /\ emrEventDetail.State = Expected(o, "state")
                  /\ emrEventDetail.Message = Expected(o, "message")
        /\ err # "" => ~Valid(event.detail)

\* C7 (amended): a well-formed object over any subset of the keys whose
\* values are strings or null decodes without error, each missing or null key
\* giving ""; an object with a key of another type, and a well-formed value
\* that is neither an object nor null, fail with a type error although the
\* bytes are well-formed; and the error is a syntax error exactly when the
\* bytes are not well-formed.
C7_StringFieldsDecode ==
    (Started /\ event.source = "aws.emr") =>
        /\ \A o \in Objects :
              event.detail = Encode(o) =>
                  IF StringValued(o)
                  THEN /\ err = ""
                       /\ emrEventDetail.Severity = Expected(o, "severity")
                       /\ emrEventDetail.State = Expected(o, "state")
                       /\ emrEventDetail.Message = Expected(o, "message")
                  ELSE err = "type"
        /\ (Valid(event.detail) /\ event.detail[1] \notin {LBrace, Null}) =>
              err = "type"
        /\ err = "syntax" <=> ~Valid(event.detail)
        /\ err \in {"", "syntax", "type"}

C7_Witness ==
    /\ pc = "dispatch"
    /\ event.source = "aws.emr"
    /\ event.detail = Encode([state |-> Str("TERMINATED"), severity |-> Null])
    /\ err = ""
    /\ emrEventDetail = [Severity |-> "", State |-> "TERMINATED", Message |-> ""]

\* event.Time.String() of the instants the events carry.
Rendered(t) ==
    CASE t = 0 -> "1970-01-01 00:00:00 +0000 UTC"
      [] t = 59 -> "1970-01-01 00:00:59 +0000 UTC"
      [] t = 3661 -> "1970-01-01 01:01:01 +0000 UTC"
      [] t = 86399 -> "1970-01-01 23:59:59 +0000 UTC"

\* C8: for an "aws.emr" event whose detail decodes, exactly one attachment is
\* built and it is the one sent; its title is the event's detailType, its
\* text the detail's message, and its fields are AccountID, Region, State,
\* Time in that order, with the event's account and region, the detail's
\* state and the event's time as a string, all short, all present.
C8_AttachmentShape ==
    (Started /\ event.source = "aws.emr" /\ err = "") =>
        /\ Len(slackAttachments) = 1
        /\ slackAttachments[1].Title = event.detailType
        /\ slackAttachments[1].Text = emrEventDetail.Message
        /\ slackAttachments[1].AttachmentField =
              << [Title |-> "AccountID", Value |-> event.accountId, Short |-> TRUE],
                 [Title |-> "Region", Value |-> event.region, Short |-> TRUE],
                 [Title |-> "State", Value |-> emrEventDetail.State, Short |-> TRUE],
                 [Title |-> "Time", Value |-> Rendered(event.time), Short |-> TRUE] >>
        /\ \A k \in 1..Len(sent) : sent[k].Attachments = slackAttachments

C8_Witness ==
    /\ pc = "done"
    /\ event.source = "aws.emr"
    /\ event.detail = ScenarioADetail
    /\ Len(sent) = 1
    /\ sent[1].Attachments[1].Color = "danger"
    /\ sent[1].Attachments[1].Title = "EMR Cluster State Change"
    /\ sent[1].Attachments[1].Text = "boom"
    /\ sent[1].Attachments[1].AttachmentField[3].Value = "TERMINATED"

\* C9: no step changes the configuration set by init(); every payload sent
\* carries the configured channel; and an invocation starts from an empty
\* attachment list, so after its first step the list holds at most the one
\* attachment of its own event, and what it has sent when done is that list.
C9_InvocationsIndependent ==
    [][ /\ config' = config
        /\ \A k \in 1..Len(sent') : sent'[k].Channel = slackMonitorChannel
        /\ Len(slackAttachments') <= 1
        /\ \A k \in 1..Len(slackAttachments') :
              /\ slackAttachments'[k].Title = event'.detailType
              /\ slackAttachments'[k].Text = emrEventDetail'.Message
              /\ slackAttachments'[k].AttachmentField[1].Value = event'.accountId
              /\ slackAttachments'[k].AttachmentField[2].Value = event'.region
        /\ invocations' # invocations => sent' = <<>>
        /\ pc' = "done" => Flatten(sent') = slackAttachments'
      ]_vars

C9_Witness ==
    /\ invocations = 2
    /\ pc = "done"
    /\ Len(sent) = 1
    /\ sent[1].Channel = slackMonitorChannel
    /\ sent[1].Attachments[1].Title = ""

\* C10: an invocation builds at most one attachment and makes at most one
\* send, of exactly one attachment, with the configured chunk size of 100; when
\* done it has made exactly one send if the source is "aws.emr" and the
\* detail decoded, and none otherwise.
C10_AtMostOneSend ==
    /\ slackAttachmentsChunkSize = 100
    /\ Len(slackAttachments) <= 1
    /\ Len(sent) <= 1
    /\ \A k \in 1..Len(sent) : Len(sent[k].Attachments) = 1
    /\ pc = "done" =>
          Len(sent) = IF event.source = "aws.emr" /\ err = "" THEN 1 ELSE 0

C10_Witness ==
    /\ pc = "done"
    /\ event.source = "aws.emr"
    /\ err = ""
    /\ Len(sent) = 1
    /\ i = 100
    /\ log = <<InfoLine("response")>>

====
